---------------------------- MODULE Spec2Model ----------------------------
(***************************************************************************)
(* Model of the Universe of wasm-game-of-life (src/src/lib.rs): a toroidal *)
(* Game of Life grid stored in a FixedBitSet, with its public operations.  *)
(*                                                                         *)
(* A Universe value is the record [width, height, cells, panicked]:        *)
(*   width, height  the u32 fields;                                        *)
(*   cells          the FixedBitSet, a function 0..len-1 -> BOOLEAN        *)
(*                  (TRUE = Alive);                                        *)
(*   panicked       TRUE once an operation has panicked (an assert of      *)
(*                  FixedBitSet, or an arithmetic overflow in a build with *)
(*                  overflow checks).  The writes made before the panic    *)
(*                  stay in memory; no operation runs after it.            *)
(*                                                                         *)
(* u32 arithmetic.  All inputs of the model are small, so a u32 value is   *)
(* either small or, after a wrapped subtraction, 2^32 - k for a small k.   *)
(* The model writes the latter as the negative integer -k (two's           *)
(* complement): +, - and * on these representatives are the wrapping u32   *)
(* operations, and a negative representative is larger than every small    *)
(* value.  In a build with overflow checks the subtraction panics instead; *)
(* the flag oc of an operation says which build runs.                      *)
(***************************************************************************)
EXTENDS Integers, Sequences, FiniteSets

VARIABLES width, height, cells, panicked, last, calls

vars == <<width, height, cells, panicked, last, calls>>

-----------------------------------------------------------------------------
(* Program constants *)

\* lib.rs:131, lib.rs:132: the dimensions new() gives.
NewWidth == 64
NewHeight == 64
\* lib.rs:196: the glider's clearing margin.
GliderMargin == 2
\* lib.rs:205: the pulsar's clearing margin.
PulsarMargin == 7

(* Bounds of the model *)

\* Most calls of a run of Spec that leave a grid of more than MaxArea cells.
MaxCalls == 1
\* Most cells of a grid on which Spec applies operations without limit.
MaxArea == 4
\* Largest argument of set_width and of set_height, the largest grid
\* SpecEdit starts from, and the longer and the shorter side of the largest
\* grids SpecWide starts from.
MaxW == 3
MaxH == 2
\* Largest side of a grid SpecTick starts from.
MaxDim == 3
\* SpecStamp starts from grids whose sides exceed twice a pattern's margin
\* by at most this.
MaxSlack == 1
\* Longest period of the stream of draws random() consumes.
MaxPeriod == 2
\* Longest slice SpecSet passes to set_cells.
MaxList == 2
\* Most ticks SpecLife applies to a grid a pattern was laid on.
MaxGen == 4

-----------------------------------------------------------------------------
(* FixedBitSet *)

\* FixedBitSet::with_capacity(size): size bits, all false.
with_capacity(size) == [i \in 0 .. size - 1 |-> FALSE]

\* FixedBitSet::len.
BitLen(bits) == Cardinality(DOMAIN bits)

\* Index<usize>: bits[idx] is contains(idx), false out of range.
Bit(bits, idx) == IF idx \in DOMAIN bits THEN bits[idx] ELSE FALSE

\* The Universe after a panic: what was written stays, nothing runs after.
Panic(u) == [u EXCEPT !.panicked = TRUE]

\* self.cells.set(idx, v): FixedBitSet::set asserts idx < len.
Set(u, idx, v) ==
    IF u.panicked THEN u
    ELSE IF idx \in DOMAIN u.cells THEN [u EXCEPT !.cells[idx] = v]
    ELSE Panic(u)

\* self.cells.toggle(idx): FixedBitSet::toggle asserts idx < len.
Toggle(u, idx) ==
    IF u.panicked THEN u
    ELSE IF idx \in DOMAIN u.cells THEN [u EXCEPT !.cells[idx] = ~u.cells[idx]]
    ELSE Panic(u)

-----------------------------------------------------------------------------
(* Universe: private helpers *)

\* A get_index that multiplies the row by the height.
get_index_by_height(u, row, column) == row * u.height + column

\* get_index: (row * self.width + column) as usize, in wrapping u32.
get_index(u, row, column) == row * u.width + column

\* The arrays [self.height - 1, 0, 1] and [self.width - 1, 0, 1].
delta_rows(u) == <<u.height - 1, 0, 1>>
delta_cols(u) == <<u.width - 1, 0, 1>>

\* An iteration that does not wrap the neighbour's row and column.
neighbor_term_unwrapped(u, row, column, delta_row, delta_col) ==
    IF delta_col = 0 /\ delta_row = 0 THEN 0
    ELSE LET neighbor_row == row + delta_row
             neighbor_col == column + delta_col
             idx == get_index(u, neighbor_row, neighbor_col)
         IN  IF Bit(u.cells, idx) THEN 1 ELSE 0

\* An iteration that does not skip the pair of deltas (0, 0).
neighbor_term_unskipped(u, row, column, delta_row, delta_col) ==
    LET neighbor_row == (row + delta_row) % u.height
        neighbor_col == (column + delta_col) % u.width
        idx == get_index(u, neighbor_row, neighbor_col)
    IN  IF Bit(u.cells, idx) THEN 1 ELSE 0

\* One iteration of the double loop of live_neighbor_count.
neighbor_term(u, row, column, delta_row, delta_col) ==
    IF delta_col = 0 /\ delta_row = 0 THEN 0
    ELSE LET neighbor_row == (row + delta_row) % u.height
             neighbor_col == (column + delta_col) % u.width
             idx == get_index(u, neighbor_row, neighbor_col)
         IN  IF Bit(u.cells, idx) THEN 1 ELSE 0

\* live_neighbor_count: the sum over the 3 x 3 pairs of deltas.
live_neighbor_count(u, row, column) ==
    LET dr == delta_rows(u)
        dc == delta_cols(u)
        t(i, j) == neighbor_term(u, row, column, dr[i], dc[j])
    IN  (t(1, 1) + t(1, 2) + t(1, 3))
      + ((t(2, 1) + t(2, 2) + t(2, 3))
      +  (t(3, 1) + t(3, 2) + t(3, 3)))

\* An init_cells that resizes the bit set and keeps the bits it had.
init_cells_keeping(u) ==
    LET size == u.width * u.height
    IN  [u EXCEPT !.cells = [i \in 0 .. size - 1 |-> Bit(u.cells, i)]]

\* init_cells: a fresh all-false bit set of width * height bits.
init_cells(u) ==
    LET size == u.width * u.height
    IN  [u EXCEPT !.cells = with_capacity(size)]

\* The range a..b of u32 values: empty when a >= b; a wrapped a is huge.
RangeLo(a, b) == IF a < 0 THEN b ELSE a

RECURSIVE clear_columns(_, _, _, _)
\* The inner loop of clear_cells: column .. end_col - 1 of one row.
clear_columns(u, row, column, end_col) ==
    IF u.panicked \/ column >= end_col THEN u
    ELSE clear_columns(Set(u, get_index(u, row, column), FALSE),
                       row, column + 1, end_col)

RECURSIVE clear_rows(_, _, _, _, _)
\* The outer loop of clear_cells: row .. end_row - 1.
clear_rows(u, row, end_row, start_col, end_col) ==
    IF u.panicked \/ row >= end_row THEN u
    ELSE clear_rows(clear_columns(u, row, RangeLo(start_col, end_col), end_col),
                    row + 1, end_row, start_col, end_col)

\* clear_cells(start, end): the half-open rectangle, row-major.
clear_cells(u, start, end) ==
    clear_rows(u, RangeLo(start[1], end[1]), end[1], start[2], end[2])

-----------------------------------------------------------------------------
(* Universe: public operations.  Each takes the Universe u and gives the   *)
(* Universe the call leaves behind.                                        *)

\* A new() that seeds with i % 2 == 0 && i % 7 == 0.
new_seeded_with_and ==
    LET size == NewWidth * NewHeight
    IN  [width    |-> NewWidth,
         height   |-> NewHeight,
         cells    |-> [i \in 0 .. size - 1 |-> i % 2 = 0 /\ i % 7 = 0],
         panicked |-> FALSE]

\* new(): 64 x 64, cell i alive iff i % 2 == 0 || i % 7 == 0.
new ==
    LET size == NewWidth * NewHeight
    IN  [width    |-> NewWidth,
         height   |-> NewHeight,
         cells    |-> [i \in 0 .. size - 1 |-> i % 2 = 0 \/ i % 7 = 0],
         panicked |-> FALSE]

\* A set_width that stores the width and leaves the cells alone.
set_width_only(u, w) == [u EXCEPT !.width = w]

\* set_width(width): store the width, then init_cells.
set_width(u, w) == init_cells([u EXCEPT !.width = w])

\* set_height(height): store the height, then init_cells.
set_height(u, h) == init_cells([u EXCEPT !.height = h])

\* A clear that keeps the bits the bit set had.
clear_keeping(u) == init_cells_keeping(u)

\* clear(): init_cells.
clear(u) == init_cells(u)

\* A random() that sizes the fresh bit set as width * width.
random_by_width(u, draws) ==
    LET size == u.width * u.width
    IN  [u EXCEPT !.cells =
            [i \in 0 .. size - 1 |-> draws[(i % Len(draws)) + 1]]]

\* random(): a fresh bit set, bit i set iff the i-th draw is below 0.5.
\* draws is the stream of those comparisons, a sequence repeated for ever.
random(u, draws) ==
    LET size == u.width * u.height
    IN  [u EXCEPT !.cells =
            [i \in 0 .. size - 1 |-> draws[(i % Len(draws)) + 1]]]

\* A toggle_cell that sets the bit instead of flipping it.
toggle_cell_setting(u, row, column) == Set(u, get_index(u, row, column), TRUE)

\* toggle_cell(row, column): toggle the bit at get_index(row, column).
toggle_cell(u, row, column) == Toggle(u, get_index(u, row, column))

RECURSIVE set_cells_toggling(_, _)
\* A set_cells that toggles the bit of each pair instead of setting it.
set_cells_toggling(u, list) ==
    IF u.panicked \/ list = <<>> THEN u
    ELSE set_cells_toggling(Toggle(u, get_index(u, Head(list)[1], Head(list)[2])),
                            Tail(list))

RECURSIVE set_cells(_, _)
\* set_cells(cells): set the bit of each pair of the slice, in order.
set_cells(u, list) ==
    IF u.panicked \/ list = <<>> THEN u
    ELSE set_cells(Set(u, get_index(u, Head(list)[1], Head(list)[2]), TRUE),
                   Tail(list))

\* A match in which an Alive cell survives with 2 live neighbours only.
next_state_two_only(cell, live_neighbors) ==
    IF cell /\ live_neighbors < 2 THEN FALSE
    ELSE IF cell /\ live_neighbors = 2 THEN TRUE
    ELSE IF cell /\ live_neighbors > 2 THEN FALSE
    ELSE IF ~cell /\ live_neighbors = 3 THEN TRUE
    ELSE cell

\* A match in which a Dead cell with no live neighbour is born as well.
next_state_lonely_birth(cell, live_neighbors) ==
    IF cell /\ live_neighbors < 2 THEN FALSE
    ELSE IF cell /\ (live_neighbors = 2 \/ live_neighbors = 3) THEN TRUE
    ELSE IF cell /\ live_neighbors > 3 THEN FALSE
    ELSE IF ~cell /\ (live_neighbors = 3 \/ live_neighbors = 0) THEN TRUE
    ELSE cell

\* The match of tick: the next state of a cell with that many live neighbours.
next_state(cell, live_neighbors) ==
    IF cell /\ live_neighbors < 2 THEN FALSE
    ELSE IF cell /\ (live_neighbors = 2 \/ live_neighbors = 3) THEN TRUE
    ELSE IF cell /\ live_neighbors > 3 THEN FALSE
    ELSE IF ~cell /\ live_neighbors = 3 THEN TRUE
    ELSE cell

\* A tick that updates in place: the cell and its neighbours are read from
\* the buffer being written.
tick_cell_in_place(u, next, row, col) ==
    LET idx == get_index(next, row, col)
        cell == Bit(next.cells, idx)
        live_neighbors == live_neighbor_count(next, row, col)
    IN  Set(next, idx, next_state(cell, live_neighbors))

\* The body of the double loop of tick: reads self, writes next.
tick_cell(u, next, row, col) ==
    LET idx == get_index(u, row, col)
        cell == Bit(u.cells, idx)
        live_neighbors == live_neighbor_count(u, row, col)
    IN  Set(next, idx, next_state(cell, live_neighbors))

RECURSIVE tick_columns(_, _, _, _, _)
\* for col in 0..self.width: the iterations lo .. hi - 1 of one row, in
\* order, run as the first half then the second.
tick_columns(u, next, row, lo, hi) ==
    CASE next.panicked \/ lo >= hi -> next
      [] hi = lo + 1 -> tick_cell(u, next, row, lo)
      [] OTHER -> tick_columns(u, tick_columns(u, next, row, lo, (lo + hi) \div 2),
                               row, (lo + hi) \div 2, hi)

RECURSIVE tick_rows(_, _, _, _)
\* for row in 0..self.height: the iterations lo .. hi - 1, in order, run
\* as the first half then the second.
tick_rows(u, next, lo, hi) ==
    CASE next.panicked \/ lo >= hi -> next
      [] hi = lo + 1 -> tick_columns(u, next, lo, 0, u.width)
      [] OTHER -> tick_rows(u, tick_rows(u, next, lo, (lo + hi) \div 2),
                            (lo + hi) \div 2, hi)

\* tick(): next is a clone of the cells; after the loops self.cells = next.
\* A panic in the loops leaves self.cells as it was.
tick(u) ==
    LET next == tick_rows(u, u, 0, u.height)
    IN  IF next.panicked THEN Panic(u) ELSE next

RECURSIVE set_offsets(_, _, _, _, _, _)
\* self.cells.set(self.get_index(row + dr, column + dc), true) for the
\* offsets <<dr, dc>> number lo .. hi of the sequence, in order, run as the
\* first half then the second.
set_offsets(u, row, column, offsets, lo, hi) ==
    CASE u.panicked \/ lo > hi -> u
      [] lo = hi -> Set(u, get_index(u, row + offsets[lo][1],
                                        column + offsets[lo][2]), TRUE)
      [] OTHER -> set_offsets(set_offsets(u, row, column, offsets,
                                          lo, (lo + hi) \div 2),
                              row, column, offsets, (lo + hi) \div 2 + 1, hi)

\* The five offsets with the columns mirrored.
glider_offsets_mirrored == << <<0, 1>>, <<-1, -1>>, <<0, -1>>, <<1, 0>>, <<1, -1>> >>

\* The five cells insert_glider sets, as offsets from (row, column).
glider_offsets == << <<0, -1>>, <<-1, 1>>, <<0, 1>>, <<1, 0>>, <<1, 1>> >>

\* An insert_glider that does not clear the rectangle first.
insert_glider_unclear(u, row, column, oc) ==
    IF oc /\ (row < GliderMargin \/ column < GliderMargin) THEN Panic(u)
    ELSE set_offsets(u, row, column, glider_offsets, 1, Len(glider_offsets))

\* insert_glider(row, column).  With overflow checks (oc) row - 2 or
\* column - 2 panics before anything is written.
insert_glider(u, row, column, oc) ==
    IF oc /\ (row < GliderMargin \/ column < GliderMargin) THEN Panic(u)
    ELSE set_offsets(
            clear_cells(u, <<row - GliderMargin, column - GliderMargin>>,
                           <<row + GliderMargin, column + GliderMargin>>),
            row, column, glider_offsets, 1, Len(glider_offsets))

\* The 48 cells insert_pulsar sets, in the order of the source.
pulsar_offsets ==
    << <<-6, -2>>, <<-6, -3>>, <<-6, -4>>,
       <<-4, -6>>, <<-3, -6>>, <<-2, -6>>,
       <<-4, -1>>, <<-3, -1>>, <<-2, -1>>,
       <<-1, -2>>, <<-1, -3>>, <<-1, -4>>,
       <<-6, 2>>, <<-6, 3>>, <<-6, 4>>,
       <<-4, 6>>, <<-3, 6>>, <<-2, 6>>,
       <<-4, 1>>, <<-3, 1>>, <<-2, 1>>,
       <<-1, 2>>, <<-1, 3>>, <<-1, 4>>,
       <<6, -2>>, <<6, -3>>, <<6, -4>>,
       <<4, -6>>, <<3, -6>>, <<2, -6>>,
       <<4, -1>>, <<3, -1>>, <<2, -1>>,
       <<1, -2>>, <<1, -3>>, <<1, -4>>,
       <<6, 2>>, <<6, 3>>, <<6, 4>>,
       <<4, 6>>, <<3, 6>>, <<2, 6>>,
       <<4, 1>>, <<3, 1>>, <<2, 1>>,
       <<1, 2>>, <<1, 3>>, <<1, 4>> >>

\* An insert_pulsar that clears only as far as its cells reach: one row and
\* one column less on every side.
insert_pulsar_tight(u, row, column, oc) ==
    IF oc /\ (row < PulsarMargin \/ column < PulsarMargin) THEN Panic(u)
    ELSE set_offsets(
            clear_cells(u, <<row - PulsarMargin + 1, column - PulsarMargin + 1>>,
                           <<row + PulsarMargin - 1, column + PulsarMargin - 1>>),
            row, column, pulsar_offsets, 1, Len(pulsar_offsets))

\* An insert_pulsar that leaves out the last of the 48 cells.
insert_pulsar_short(u, row, column, oc) ==
    IF oc /\ (row < PulsarMargin \/ column < PulsarMargin) THEN Panic(u)
    ELSE set_offsets(
            clear_cells(u, <<row - PulsarMargin, column - PulsarMargin>>,
                           <<row + PulsarMargin, column + PulsarMargin>>),
            row, column, pulsar_offsets, 1, Len(pulsar_offsets) - 1)

\* insert_pulsar(row, column).  With overflow checks (oc) row - 7 or
\* column - 7 panics before anything is written.
insert_pulsar(u, row, column, oc) ==
    IF oc /\ (row < PulsarMargin \/ column < PulsarMargin) THEN Panic(u)
    ELSE set_offsets(
            clear_cells(u, <<row - PulsarMargin, column - PulsarMargin>>,
                           <<row + PulsarMargin, column + PulsarMargin>>),
            row, column, pulsar_offsets, 1, Len(pulsar_offsets))

-----------------------------------------------------------------------------
(* The state machine.  last records the operation that produced the state, *)
(* its arguments and the Universe it was applied to; calls counts the      *)
(* operations applied since the initial state.                             *)

\* The Universe held by the variables.
Self == [width |-> width, height |-> height, cells |-> cells,
         panicked |-> panicked]

\* The variables hold Universe v.
Holds(v) ==
    /\ width = v.width
    /\ height = v.height
    /\ cells = v.cells
    /\ panicked = v.panicked

\* One call: op(args) applied to the Universe of the current state gives v.
\* No operation runs after a panic.
Call(op, args, v) ==
    /\ ~panicked
    /\ width' = v.width
    /\ height' = v.height
    /\ cells' = v.cells
    /\ panicked' = v.panicked
    /\ last' = [op |-> op, args |-> args, pre |-> Self]

\* Arguments tried for set_width and for set_height.
Widths == 0 .. MaxW
Heights == 0 .. MaxH

\* Coordinates tried on a side of n cells for an operation that reaches m
\* cells back and m cells (exclusive) forward: 0, the two around each place
\* where the reach starts or stops fitting, the middle, and n, one beyond
\* the grid.  For m = 1 on a side of at most 3 cells that is every
\* coordinate 0 .. n.
Near(n, m) ==
    {x \in 0 .. n : x \in {0, m - 1, m, n \div 2, n - m, n - m + 1, n}}

\* The streams of draws tried for random(): every sequence of booleans of
\* length 1 .. MaxPeriod, repeated.
DrawStreams == UNION {[1 .. p -> BOOLEAN] : p \in 1 .. MaxPeriod}

SetWidth == \E w \in Widths : Call("set_width", <<w>>, set_width(Self, w))

SetHeight == \E h \in Heights : Call("set_height", <<h>>, set_height(Self, h))

Clear == Call("clear", <<>>, clear(Self))

Random == \E draws \in DrawStreams : Call("random", draws, random(Self, draws))

Tick == Call("tick", <<>>, tick(Self))

ToggleCell ==
    \E row \in Near(height, 1), col \in Near(width, 1) :
        Call("toggle_cell", <<row, col>>, toggle_cell(Self, row, col))

SetCells ==
    \E row \in Near(height, 1), col \in Near(width, 1) :
        Call("set_cells", << <<row, col>> >>,
             set_cells(Self, << <<row, col>> >>))

\* The slices of at most n pairs, each a cell of the grid.
Slices(n) ==
    UNION {[1 .. k -> (0 .. height - 1) \X (0 .. width - 1)] : k \in 0 .. n}

\* set_cells with a slice of several in-range pairs.
SetCellsSlice ==
    \E list \in Slices(MaxList) : Call("set_cells", list, set_cells(Self, list))

\* The slice of the four cells of the 2 x 2 block whose top-left cell is
\* (r, c).
Block(r, c) == << <<r, c>>, <<r, c + 1>>, <<r + 1, c>>, <<r + 1, c + 1>> >>

\* The slice of the three cells of the horizontal blinker centred on (5, 5).
Blinker == << <<5, 4>>, <<5, 5>>, <<5, 6>> >>

\* The slices that lay a still life or an oscillator: a block at the
\* places Near picks among those where it does not cross an edge, and the
\* blinker.
Patterns ==
    {Block(r, c) : r \in Near(height - 2, 1), c \in Near(width - 2, 1)}
        \cup {Blinker}

\* set_cells with the slice of a pattern.
SetCellsPattern ==
    \E list \in Patterns : Call("set_cells", list, set_cells(Self, list))

InsertGlider ==
    \E row \in Near(height, GliderMargin), col \in Near(width, GliderMargin),
       oc \in BOOLEAN :
        Call("insert_glider", <<row, col>>, insert_glider(Self, row, col, oc))

InsertPulsar ==
    \E row \in Near(height, PulsarMargin), col \in Near(width, PulsarMargin),
       oc \in BOOLEAN :
        Call("insert_pulsar", <<row, col>>, insert_pulsar(Self, row, col, oc))

\* An action of a specification that bounds the work on large grids, for an
\* operation that keeps the dimensions: on a grid of at most MaxArea cells
\* the call is always possible, on a larger grid it is one of at most
\* MaxCalls calls that leave a larger grid.
Counted(A) ==
    /\ width * height <= MaxArea \/ calls < MaxCalls
    /\ A
    /\ calls' = IF width * height <= MaxArea THEN calls ELSE calls + 1

\* The same for an operation that sets a dimension: what counts is the grid
\* the call leaves.
Resizing(A) ==
    /\ A
    /\ width' * height' <= MaxArea \/ calls < MaxCalls
    /\ calls' = IF width' * height' <= MaxArea THEN calls ELSE calls + 1

\* An action of a specification whose grids are bounded.
Free(A) == A /\ UNCHANGED calls

\* An action of a specification that applies one operation to a given grid.
Once(A) == last.op = "given" /\ A /\ UNCHANGED calls

\* Every Universe of h rows and w columns.
Grids(w, h) ==
    {[width |-> w, height |-> h, cells |-> c, panicked |-> FALSE] :
        c \in [0 .. w * h - 1 -> BOOLEAN]}

\* The variables hold the given Universe u, on which nothing has run yet.
Given(u) ==
    /\ Holds(u)
    /\ last = [op |-> "given", args |-> <<>>, pre |-> u]
    /\ calls = 0

\* Spec: the Universe new() constructs, then the nine operations in any
\* order, for ever: resized to at most MaxArea cells (zero-sized, one row,
\* one column, square) the grid takes any sequence of them; calls counts
\* the calls that left a larger grid, at most MaxCalls of them.
Init ==
    /\ Holds(new)
    /\ last = [op |-> "new", args |-> <<>>, pre |-> new]
    /\ calls = 0

Next ==
    \/ Resizing(SetWidth)
    \/ Resizing(SetHeight)
    \/ Counted(Clear)
    \/ Counted(Random)
    \/ Counted(Tick)
    \/ Counted(ToggleCell)
    \/ Counted(SetCells)
    \/ Counted(InsertGlider)
    \/ Counted(InsertPulsar)

Spec == Init /\ [][Next]_vars

\* SpecTick: any grid of at most MaxDim x MaxDim cells, then tick() for ever.
InitTick ==
    \E w \in 1 .. MaxDim, h \in 1 .. MaxDim : \E u \in Grids(w, h) : Given(u)

NextTick == Free(Tick)

SpecTick == InitTick /\ [][NextTick]_vars

\* SpecWide: any grid with one side of at most MaxW cells and the other of
\* at most MaxH, whichever of the two is the width, then tick() for ever.
InitWide ==
    \E w \in 1 .. MaxW, h \in 1 .. MaxW :
        /\ w <= MaxH \/ h <= MaxH
        /\ \E u \in Grids(w, h) : Given(u)

NextWide == Free(Tick)

SpecWide == InitWide /\ [][NextWide]_vars

\* SpecEdit: any grid of at most MaxW x MaxH cells, then the operations that
\* resize, reset and edit single cells, in any order, for ever.
InitEdit ==
    \E w \in 1 .. MaxW, h \in 1 .. MaxH : \E u \in Grids(w, h) : Given(u)

NextEdit ==
    \/ Free(SetWidth)
    \/ Free(SetHeight)
    \/ Free(Clear)
    \/ Free(Random)
    \/ Free(ToggleCell)
    \/ Free(SetCells)

SpecEdit == InitEdit /\ [][NextEdit]_vars

\* The sides of the grids SpecStamp starts from: those a glider or a pulsar
\* just fits, and up to MaxSlack more.
StampSides ==
    UNION {(2 * m) .. (2 * m + MaxSlack) : m \in {GliderMargin, PulsarMargin}}

\* SpecStamp: a grid random() can leave, then one pattern stamped on it.
InitStamp ==
    \E w \in StampSides, h \in StampSides, draws \in DrawStreams :
        Given(random([width |-> w, height |-> h, cells |-> <<>>,
                      panicked |-> FALSE], draws))

NextStamp ==
    \/ Once(InsertGlider)
    \/ Once(InsertPulsar)

SpecStamp == InitStamp /\ [][NextStamp]_vars

\* The slice of the example of set_cells: cells (2, 3) and (4, 5).
ExamplePairs == << <<2, 3>>, <<4, 5>> >>

\* A Universe of h rows and w columns that holds no bit set yet.
Sized(w, h) == [width |-> w, height |-> h, cells |-> <<>>, panicked |-> FALSE]

\* SpecSet: a grid random() can leave, of the smallest size that holds the
\* cells of ExamplePairs, then one set_cells with a slice of in-range pairs.
InitSet ==
    \E draws \in DrawStreams :
        Given(random(Sized(ExamplePairs[2][2] + 1, ExamplePairs[2][1] + 1), draws))

NextSet == Once(SetCellsSlice)

SpecSet == InitSet /\ [][NextSet]_vars

\* The next state holds Universe v.
Becomes(v) ==
    /\ width' = v.width
    /\ height' = v.height
    /\ cells' = v.cells
    /\ panicked' = v.panicked

\* tick() on a grid a pattern was laid on: last keeps the call that laid the
\* pattern and calls counts the ticks since.
Generation ==
    /\ ~panicked
    /\ last.op # "given"
    /\ calls < MaxGen
    /\ Becomes(tick(Self))
    /\ calls' = calls + 1
    /\ UNCHANGED last

\* The sides of the grids SpecLife starts from: 4 and up to MaxSlack more,
\* 10 and 20.
LifeSides == (4 .. (4 + MaxSlack)) \cup {10, 20}

\* SpecLife: an all-Dead grid, one pattern laid on it by set_cells,
\* insert_glider or insert_pulsar, then at most MaxGen ticks.
InitLife ==
    \E w \in LifeSides, h \in LifeSides : Given(init_cells(Sized(w, h)))

NextLife ==
    \/ Once(SetCellsPattern)
    \/ Once(InsertGlider)
    \/ Once(InsertPulsar)
    \/ Generation

SpecLife == InitLife /\ [][NextLife]_vars

-----------------------------------------------------------------------------
(* Vocabulary of the properties *)

\* The cells (row, col) of a grid of w columns and h rows.
Coords(w, h) == (0 .. h - 1) \X (0 .. w - 1)

\* Whether cell (row, col) of Universe u is alive.
Alive(u, row, col) == u.cells[row * u.width + col]

\* The last operation was op, applied to a Universe that had not panicked.
Did(op) == last.op = op

\* The rule table of the Game of Life: Alive survives with 2 or 3 live
\* neighbours, Dead is born with exactly 3, every other cell is Dead.
RuleTable(alive, n) ==
    IF alive THEN (IF n < 2 THEN FALSE ELSE IF n <= 3 THEN TRUE ELSE FALSE)
    ELSE (IF n = 3 THEN TRUE ELSE FALSE)

\* The eight offsets of the Moore neighbourhood.
MooreOffsets == ({-1, 0, 1} \X {-1, 0, 1}) \ {<<0, 0>>}

\* The number of Moore offsets whose cell, wrapped round the torus, is alive.
MooreCount(u, row, col) ==
    Cardinality({d \in MooreOffsets :
        Alive(u, (row + d[1] + u.height) % u.height,
                 (col + d[2] + u.width) % u.width)})

-----------------------------------------------------------------------------
(* C1: tick is a simultaneous update from a frozen snapshot.  After tick() *)
(* every in-range cell holds the rule table applied to the state that cell *)
(* had before the tick and to live_neighbor_count of that cell on the grid *)
(* before the tick; the dimensions are unchanged and nothing panics.       *)
TickFromSnapshot ==
    Did("tick") =>
        /\ ~panicked
        /\ width = last.pre.width
        /\ height = last.pre.height
        /\ DOMAIN cells = DOMAIN last.pre.cells
        /\ \A rc \in Coords(width, height) :
              Alive(Self, rc[1], rc[2]) =
                  RuleTable(Alive(last.pre, rc[1], rc[2]),
                            live_neighbor_count(last.pre, rc[1], rc[2]))

\* A tick in which one cell was born and another died, so that the cells
\* updated later in the loop had neighbours whose state had already changed.
TickFromSnapshotWitness ==
    /\ Did("tick")
    /\ \E a \in Coords(width, height), b \in Coords(width, height) :
          /\ a[1] * width + a[2] < b[1] * width + b[2]
          /\ Alive(last.pre, a[1], a[2]) /\ ~Alive(Self, a[1], a[2])
          /\ ~Alive(last.pre, b[1], b[2]) /\ Alive(Self, b[1], b[2])

(* C2: live_neighbor_count(row, col) is the number of the eight Moore      *)
(* offsets whose wrapped cell is alive, each offset counted once, on every *)
(* grid of at least 1 x 1 cells (8 on a 1 x 1 grid whose cell is alive).   *)
NeighborCountIsMoore ==
    ~panicked =>
        \A rc \in Coords(width, height) :
            live_neighbor_count(Self, rc[1], rc[2])
                = MooreCount(Self, rc[1], rc[2])

(* C3: in every state reached from new() by the public mutating operations *)
(* the bit set holds exactly width * height cells, indexed from 0.         *)
CellCountIsArea == DOMAIN cells = 0 .. (width * height - 1)

\* A random() on a grid that was resized to several cells in one row or one
\* column and then edited, some of its cells Alive.
CellCountIsAreaWitness ==
    /\ Did("random")
    /\ width # height
    /\ width * height > 1
    /\ width < NewWidth
    /\ height < NewHeight
    /\ \E i \in DOMAIN last.pre.cells : last.pre.cells[i]
    /\ BitLen(cells) = width * height

(* C4: after set_width(w) the width is w, the height is the one before and *)
(* each of the w * height cells is Dead; after set_height(h) the height is *)
(* h, the width is the one before and each of the width * h cells is Dead. *)
ResizeResets ==
    /\ Did("set_width") =>
          /\ width = last.args[1]
          /\ height = last.pre.height
    /\ Did("set_height") =>
          /\ height = last.args[1]
          /\ width = last.pre.width
    /\ (Did("set_width") \/ Did("set_height")) =>
          /\ DOMAIN cells = 0 .. (width * height - 1)
          /\ \A i \in DOMAIN cells : ~cells[i]

\* A resize to the size the grid already had, of a grid with a live cell:
\* the cell is Dead afterwards although its index is still in range.
ResizeResetsWitness ==
    /\ Did("set_width")
    /\ width = last.pre.width
    /\ \E i \in DOMAIN last.pre.cells : last.pre.cells[i] /\ i \in DOMAIN cells

(* C5: new() gives width 64, height 64 and 4096 cells, cell i Alive iff    *)
(* i mod 2 = 0 or i mod 7 = 0.                                             *)
NewIsSeeded ==
    Did("new") =>
        /\ width = 64
        /\ height = 64
        /\ DOMAIN cells = 0 .. 4095
        /\ \A i \in 0 .. 4095 : cells[i] <=> (i % 2 = 0 \/ i % 7 = 0)
        /\ ~panicked

\* The constructed Universe: cells 7 and 4095 (odd multiples of 7) and cell 0
\* are Alive, cells 1 and 4093 are Dead.
NewIsSeededWitness ==
    /\ Did("new")
    /\ calls = 0
    /\ cells[0] /\ cells[7] /\ cells[4095] /\ ~cells[1] /\ ~cells[4093]

\* The (row, col) a toggle_cell or a one-pair set_cells was called with.
Target == IF Did("set_cells") THEN last.args[1] ELSE last.args

(* C6: toggle_cell(row, col) and set_cells([(row, col)]) with row >= height *)
(* or col >= width panic and leave every cell as it was.                    *)
OutOfRangeFaults ==
    ( /\ Did("toggle_cell") \/ Did("set_cells")
      /\ Target[1] >= last.pre.height \/ Target[2] >= last.pre.width )
    => /\ panicked
       /\ cells = last.pre.cells

\* The half-open rectangle of margin m round (row, col).
Rectangle(row, col, m) == ((row - m) .. (row + m - 1)) \X ((col - m) .. (col + m - 1))

\* The rectangle of margin m round (row, col) lies in the grid of Universe u.
Fits(u, row, col, m) ==
    /\ row >= m
    /\ col >= m
    /\ row + m <= u.height
    /\ col + m <= u.width

\* The last operation was the stamp op of margin m, called at
\* (row, col) >= (m, m) with a rectangle that does not fit the grid: then
\* the call panicked and wrote no cell outside the rectangle.
StampFaults(op, m) ==
    ( /\ Did(op)
      /\ last.args[1] >= m
      /\ last.args[2] >= m
      /\ ~Fits(last.pre, last.args[1], last.args[2], m) )
    => /\ panicked
       /\ \A rc \in Coords(width, height) \ Rectangle(last.args[1], last.args[2], m) :
             Alive(Self, rc[1], rc[2]) = Alive(last.pre, rc[1], rc[2])

(* C7: insert_glider and insert_pulsar never wrap: called at a (row, col)  *)
(* with row, col >= the margin whose rectangle does not fit the grid, the  *)
(* call faults and no cell outside the rectangle is written.               *)
StampNeverWraps ==
    /\ StampFaults("insert_glider", GliderMargin)
    /\ StampFaults("insert_pulsar", PulsarMargin)

\* The five cells of the glider at (row, col).
GliderCells(row, col) ==
    {<<row, col - 1>>, <<row - 1, col + 1>>, <<row, col + 1>>,
     <<row + 1, col>>, <<row + 1, col + 1>>}

(* C8: after insert_glider(row, col) whose 4 x 4 rectangle fits the grid, a *)
(* cell of the rectangle is Alive iff it is one of the five glider cells.   *)
GliderStamped ==
    (Did("insert_glider") /\ Fits(last.pre, last.args[1], last.args[2], 2)) =>
        /\ ~panicked
        /\ \A rc \in Rectangle(last.args[1], last.args[2], 2) :
              Alive(Self, rc[1], rc[2])
                  <=> rc \in GliderCells(last.args[1], last.args[2])

\* A glider stamped on a rectangle in which a cell outside the glider was
\* Alive and a cell of the glider was Dead.
GliderStampedWitness ==
    /\ Did("insert_glider")
    /\ Fits(last.pre, last.args[1], last.args[2], 2)
    /\ \E rc \in Rectangle(last.args[1], last.args[2], 2) :
          /\ rc \notin GliderCells(last.args[1], last.args[2])
          /\ Alive(last.pre, rc[1], rc[2])
    /\ \E rc \in GliderCells(last.args[1], last.args[2]) :
          ~Alive(last.pre, rc[1], rc[2])

\* The twelve base offsets of the pulsar, as distances (a, b) from the centre.
PulsarBase ==
    {<<6, 2>>, <<6, 3>>, <<6, 4>>, <<4, 6>>, <<3, 6>>, <<2, 6>>,
     <<4, 1>>, <<3, 1>>, <<2, 1>>, <<1, 2>>, <<1, 3>>, <<1, 4>>}

\* The base offsets mirrored into the four quadrants round (row, col).
PulsarCells(row, col) ==
    {<<row + sr * ab[1], col + sc * ab[2]>> :
        sr \in {-1, 1}, sc \in {-1, 1}, ab \in PulsarBase}

(* C9: after insert_pulsar(row, col) whose 14 x 14 rectangle fits the grid, *)
(* exactly 48 cells of the rectangle are Alive: the twelve base offsets     *)
(* mirrored into the four quadrants; every other cell of it is Dead.        *)
PulsarStamped ==
    (Did("insert_pulsar") /\ Fits(last.pre, last.args[1], last.args[2], 7)) =>
        LET live == {rc \in Rectangle(last.args[1], last.args[2], 7) :
                        Alive(Self, rc[1], rc[2])}
        IN  /\ ~panicked
            /\ Cardinality(live) = 48
            /\ live = PulsarCells(last.args[1], last.args[2])

\* A pulsar stamped on a rectangle in which a cell outside the pulsar was
\* Alive and a cell of the pulsar was Dead.
PulsarStampedWitness ==
    /\ Did("insert_pulsar")
    /\ Fits(last.pre, last.args[1], last.args[2], 7)
    /\ \E rc \in Rectangle(last.args[1], last.args[2], 7) :
          /\ rc \notin PulsarCells(last.args[1], last.args[2])
          /\ Alive(last.pre, rc[1], rc[2])
    /\ \E rc \in PulsarCells(last.args[1], last.args[2]) :
          ~Alive(last.pre, rc[1], rc[2])

(* C10: toggle_cell(row, col) on an in-range cell flips that cell, leaves  *)
(* every other cell, the width and the height as they were, and a second   *)
(* toggle_cell(row, col) gives back the grid before the first.             *)
ToggleFlipsOne ==
    ( /\ Did("toggle_cell")
      /\ last.args[1] < last.pre.height
      /\ last.args[2] < last.pre.width )
    => /\ ~panicked
       /\ width = last.pre.width
       /\ height = last.pre.height
       /\ DOMAIN cells = DOMAIN last.pre.cells
       /\ \A rc \in Coords(width, height) :
             Alive(Self, rc[1], rc[2]) =
                 IF rc = <<last.args[1], last.args[2]>>
                 THEN ~Alive(last.pre, rc[1], rc[2])
                 ELSE Alive(last.pre, rc[1], rc[2])
       /\ toggle_cell(Self, last.args[1], last.args[2]) = last.pre

\* An in-range toggle on a grid with other cells, some of them Alive.
ToggleFlipsOneWitness ==
    /\ Did("toggle_cell")
    /\ last.args[1] < last.pre.height
    /\ last.args[2] < last.pre.width
    /\ Alive(last.pre, last.args[1], last.args[2])
    /\ \E rc \in Coords(width, height) :
          rc # <<last.args[1], last.args[2]>> /\ Alive(Self, rc[1], rc[2])

\* The cells of Universe u that are Alive.
Living(u) == {rc \in Coords(u.width, u.height) : Alive(u, rc[1], rc[2])}

\* The pairs of a slice.
Listed(list) == {list[i] : i \in 1 .. Len(list)}

(* C11: set_cells is additive.  After set_cells(L) with every pair of L in *)
(* range, a cell is Alive iff it was Alive before the call or is in L, and *)
(* the dimensions are as before; on an all-Dead grid                       *)
(* set_cells([(2,3),(4,5)]) leaves exactly those two cells Alive.          *)
SetCellsAdditive ==
    ( /\ Did("set_cells")
      /\ Listed(last.args) \subseteq Coords(last.pre.width, last.pre.height) )
    => /\ ~panicked
       /\ width = last.pre.width
       /\ height = last.pre.height
       /\ DOMAIN cells = DOMAIN last.pre.cells
       /\ Living(Self) = Living(last.pre) \cup Listed(last.args)
       /\ (last.args = ExamplePairs /\ Living(last.pre) = {})
             => Living(Self) = {<<2, 3>>, <<4, 5>>}

\* The example: set_cells([(2,3),(4,5)]) called on an all-Dead grid.
SetCellsAdditiveWitness ==
    /\ Did("set_cells")
    /\ last.args = ExamplePairs
    /\ Living(last.pre) = {}
    /\ Cardinality(Living(Self)) = 2

(* C12: clear() leaves the width and the height as they were and makes     *)
(* every one of the width * height cells Dead, whatever the grid held.     *)
ClearResets ==
    Did("clear") =>
        /\ ~panicked
        /\ width = last.pre.width
        /\ height = last.pre.height
        /\ DOMAIN cells = 0 .. (width * height - 1)
        /\ \A i \in DOMAIN cells : ~cells[i]

\* A clear() of a grid that had Alive cells and Dead cells.
ClearResetsWitness ==
    /\ Did("clear")
    /\ BitLen(cells) > 1
    /\ \E i \in DOMAIN last.pre.cells : last.pre.cells[i]
    /\ \E i \in DOMAIN last.pre.cells : ~last.pre.cells[i]

(* C13: no spontaneous generation.  On a grid of any size whose cells are  *)
(* all Dead, tick() leaves the dimensions and leaves every cell Dead; so a *)
(* grid that is all Dead stays all Dead however many ticks follow.         *)
DeadStaysDead ==
    (Did("tick") /\ Living(last.pre) = {}) =>
        /\ ~panicked
        /\ width = last.pre.width
        /\ height = last.pre.height
        /\ DOMAIN cells = DOMAIN last.pre.cells
        /\ Living(Self) = {}

\* A tick of an all-Dead grid of more than one row and more than one column.
DeadStaysDeadWitness ==
    /\ Did("tick")
    /\ Living(last.pre) = {}
    /\ Living(Self) = {}
    /\ width > 1
    /\ height > 1

\* The last call laid a pattern on an all-Dead grid of at least n rows and
\* n columns: it was op(args).
Laid(op, args, n) ==
    /\ Did(op)
    /\ last.args = args
    /\ last.pre.width >= n
    /\ last.pre.height >= n
    /\ Living(last.pre) = {}

(* C14: still-life stability.  On an all-Dead grid of at least 4 x 4 cells *)
(* on which the four cells of a 2 x 2 block that crosses no edge were set, *)
(* tick() leaves the grid as it was: exactly those four cells are Alive    *)
(* after every tick.                                                       *)
BlockIsStill ==
    \A r \in 0 .. last.pre.height - 2, c \in 0 .. last.pre.width - 2 :
        Laid("set_cells", Block(r, c), 4) =>
            /\ ~panicked
            /\ width = last.pre.width
            /\ height = last.pre.height
            /\ cells = set_cells(last.pre, Block(r, c)).cells
            /\ Living(Self) = {<<r, c>>, <<r, c + 1>>, <<r + 1, c>>, <<r + 1, c + 1>>}

\* A block in the last two rows and columns of a 4 x 4 grid, after a tick:
\* the Dead cells next to it are also next to it round the torus.
BlockIsStillWitness ==
    /\ Laid("set_cells", Block(2, 2), 4)
    /\ width = 4
    /\ height = 4
    /\ calls >= 1
    /\ Cardinality(Living(Self)) = 4

(* C15: the blinker has period 2.  On an all-Dead grid of at least 10 x 10 *)
(* cells on which (5,4), (5,5), (5,6) were set, after one tick() exactly   *)
(* (4,5), (5,5), (6,5) are Alive and after a second tick() exactly         *)
(* (5,4), (5,5), (5,6) again.                                              *)
BlinkerHasPeriodTwo ==
    Laid("set_cells", Blinker, 10) =>
        /\ ~panicked
        /\ calls = 0 => Living(Self) = {<<5, 4>>, <<5, 5>>, <<5, 6>>}
        /\ calls = 1 => Living(Self) = {<<4, 5>>, <<5, 5>>, <<6, 5>>}
        /\ calls = 2 => Living(Self) = {<<5, 4>>, <<5, 5>>, <<5, 6>>}

\* The blinker on a 10 x 10 grid after its second tick.
BlinkerHasPeriodTwoWitness ==
    /\ Laid("set_cells", Blinker, 10)
    /\ width = 10
    /\ height = 10
    /\ calls = 2
    /\ <<5, 4>> \in Living(Self)

\* The grid is the 20 x 20 grid.
Twenty == width = 20 /\ height = 20

(* C17: the stamped glider translates.  On the all-Dead 20 x 20 grid,      *)
(* after insert_glider(10, 10) and four tick() calls exactly (11,10),      *)
(* (10,12), (11,12), (12,11), (12,12) are Alive, the five inserted cells   *)
(* moved by (+1, +1); after one, two and three ticks five cells are Alive. *)
GliderTranslates ==
    (Laid("insert_glider", <<10, 10>>, 20) /\ Twenty) =>
        /\ ~panicked
        /\ calls = 0 => Living(Self) = GliderCells(10, 10)
        /\ calls \in 1 .. 3 => Cardinality(Living(Self)) = 5
        /\ calls = 4 =>
              /\ Living(Self) = {<<11, 10>>, <<10, 12>>, <<11, 12>>,
                                 <<12, 11>>, <<12, 12>>}
              /\ Living(Self) = GliderCells(11, 11)

\* The glider stamped at (10, 10) on the 20 x 20 grid after four ticks.
GliderTranslatesWitness ==
    /\ Laid("insert_glider", <<10, 10>>, 20)
    /\ Twenty
    /\ calls = 4
    /\ <<12, 12>> \in Living(Self)

(* C18: the stamped pulsar has period 3.  On the all-Dead 20 x 20 grid,    *)
(* after insert_pulsar(10, 10) the grid after three tick() calls is the    *)
(* grid right after the insertion, and the grids after one tick and after  *)
(* two ticks both differ from it.                                          *)
PulsarHasPeriodThree ==
    (Laid("insert_pulsar", <<10, 10>>, 20) /\ Twenty) =>
        LET stamped == insert_pulsar(last.pre, 10, 10, FALSE)
        IN  /\ ~panicked
            /\ calls = 0 => Self = stamped
            /\ calls \in 1 .. 2 => Self # stamped
            /\ calls = 3 => Self = stamped

\* The pulsar stamped at (10, 10) on the 20 x 20 grid after three ticks.
PulsarHasPeriodThreeWitness ==
    /\ Laid("insert_pulsar", <<10, 10>>, 20)
    /\ Twenty
    /\ calls = 3
    /\ Cardinality(Living(Self)) = 48

(* C16: neighbour count range.  On every grid of at least 1 x 1 cells,     *)
(* whatever its cells, live_neighbor_count(row, col) of every in-range     *)
(* (row, col) is between 0 and 8 inclusive.                                *)
NeighborCountInRange ==
    (~panicked /\ width >= 1 /\ height >= 1) =>
        \A rc \in Coords(width, height) :
            live_neighbor_count(Self, rc[1], rc[2]) \in 0 .. 8

\* A grid left by tick() on which a cell has 8 live neighbours, having had
\* 3 of them on the grid before the tick.
NeighborCountInRangeWitness ==
    /\ Did("tick")
    /\ \E rc \in Coords(width, height) :
          /\ live_neighbor_count(Self, rc[1], rc[2]) = 8
          /\ live_neighbor_count(last.pre, rc[1], rc[2]) = 3

\* Universe u with every cell moved by a rows and b columns round the torus:
\* cell (r, c) of the result is cell (r - a, c - b) of u, modulo the sides.
Shifted(u, a, b) ==
    [u EXCEPT !.cells =
        [i \in DOMAIN u.cells |->
            LET r == i \div u.width
                c == i % u.width
            IN  u.cells[((r - a + u.height) % u.height) * u.width
                          + ((c - b + u.width) % u.width)]]]

(* C19: tick commutes with toroidal translation.  For every grid G and     *)
(* every shift (a, b), tick() on G shifted by (a, b) gives the grid tick() *)
(* gives on G, shifted by (a, b).                                          *)
TickCommutesWithShift ==
    Did("tick") =>
        \A a \in 0 .. height - 1, b \in 0 .. width - 1 :
            tick(Shifted(last.pre, a, b)) = Shifted(Self, a, b)

\* A tick that changed a grid of several rows and columns, and a shift that
\* changes both the grid before the tick and the grid after it.
TickCommutesWithShiftWitness ==
    /\ Did("tick")
    /\ width > 1
    /\ height > 1
    /\ cells # last.pre.cells
    /\ \E a \in 0 .. height - 1, b \in 0 .. width - 1 :
          /\ Shifted(last.pre, a, b) # last.pre
          /\ Shifted(Self, a, b) # Self

(* C20: index bijection.  For width >= 1 and height >= 1, get_index on the *)
(* pairs (row, col) with row < height and col < width is injective and its *)
(* values are exactly 0 .. width * height - 1, each taken once.            *)
IndexIsBijection ==
    (width >= 1 /\ height >= 1) =>
        /\ \A p \in Coords(width, height), q \in Coords(width, height) :
              get_index(Self, p[1], p[2]) = get_index(Self, q[1], q[2]) => p = q
        /\ {get_index(Self, rc[1], rc[2]) : rc \in Coords(width, height)}
              = 0 .. (width * height - 1)
        /\ \A i \in 0 .. (width * height - 1) :
              Cardinality({rc \in Coords(width, height) :
                              get_index(Self, rc[1], rc[2]) = i}) = 1

\* A grid of several rows and more columns than rows, left by set_width: the
\* last cell of the last row has the last index.
IndexIsBijectionWitness ==
    /\ Did("set_width")
    /\ height > 1
    /\ width > height
    /\ get_index(Self, height - 1, width - 1) = width * height - 1
    /\ get_index(Self, 1, 0) = width

=============================================================================
